---- MODULE Spec2Model ----
(***************************************************************************)
(* The two endpoints of main.py, generate_text and image_to_text, as a     *)
(* state machine over a set of concurrently handled requests.              *)
(*                                                                         *)
(* A request is posted with a JSON body, validated against its pydantic    *)
(* input class, and then runs the statements of its handler one at a       *)
(* time; statements of different requests interleave freely.  The file     *)
(* system (the temporary directory), the remote resources behind the urls  *)
(* and the generative model are the environment: the outcome of a          *)
(* retrieval is fixed by the url, the outcome of a model call is chosen    *)
(* nondeterministically.  Urls name remote resources; a url that names a   *)
(* path of the local temporary directory is outside the model.             *)
(***************************************************************************)
EXTENDS Integers, Sequences, FiniteSets, TLC

VARIABLES
    config,     \* the process-wide model configuration          (main.py 7-8)
    fs,         \* the temporary directory: file name -> contents
    endpoint,   \* per request: the path it was posted to
    body,       \* per request: the JSON body, a set of <<field, value>>
    pc,         \* per request: the statement it is about to execute
    tmp,        \* per request: temp_file.name
    isOpen,     \* per request: whether temp_file's handle is open
    img,        \* per request: the local img
    response,   \* per request: the local response, as its text parts
    result,     \* per request: what the client receives
    trace       \* per request: the calls made to the environment, in order

vars == <<config, fs, endpoint, body, pc, tmp, isOpen, img, response, result, trace>>

----------------------------------------------------------------------------
(* Bounds *)

\* number of requests handled, all of them possibly at the same time
MaxReq == 2

Reqs == 1 .. MaxReq

\* candidate names of the temporary directory: always more than the files
\* the handled requests can create, as the name space of mkstemp is
Names == 1 .. (MaxReq + 1)

----------------------------------------------------------------------------
(* Values *)

NoFile == 0
NoImage == "None"
NoEndpoint == "none"

StartupConfig ==
    [api_key |-> "GENERATIVE_AI_KEY", model_name |-> "gemini-1.5-flash-latest"]

Instruction == "What is in this photo?"

UrlMalformed == "not a url"
UrlUnreachable == "http://unreachable.invalid/cat.jpg"
UrlNonImage == "http://example.com/index.html"
UrlImage == "http://example.com/cat.jpg"
Urls == {UrlMalformed, UrlUnreachable, UrlNonImage, UrlImage}

Prompts == {"", "Say hello"}

Bodies ==
    {{}} \cup {{<<"prompt", p>>} : p \in Prompts} \cup {{<<"url", u>>} : u \in Urls}

\* the texts the model may answer with
Texts == {"Hello!", "A cat sitting on a chair."}

HasField(b, k) == \E kv \in b : kv[1] = k
Field(b, k) == (CHOOSE kv \in b : kv[1] = k)[2]

----------------------------------------------------------------------------
(* The environment *)

\* urllib.request.urlretrieve(url, filename): the exception it raises, or
\* "" and the bytes it writes to filename
Retrieve(url) ==
    CASE url = UrlMalformed   -> [exc |-> "ValueError", bytes |-> ""]
      [] url = UrlUnreachable -> [exc |-> "URLError", bytes |-> ""]
      [] url = UrlNonImage    -> [exc |-> "", bytes |-> "html"]
      [] OTHER                -> [exc |-> "", bytes |-> "jpeg"]

\* PIL.Image.open(filename) on a file with the given contents
ImageOpen(bytes) ==
    IF bytes = "jpeg"
    THEN [exc |-> "", img |-> "jpeg-image"]
    ELSE [exc |-> "UnidentifiedImageError", img |-> NoImage]

\* model.generate_content(...): it raises, or returns a response with one
\* text part, or a response with no part (response.text then raises)
ModelOutcomes ==
    {[exc |-> "GoogleAPIError", parts |-> <<>>]}
        \cup {[exc |-> "", parts |-> <<>>]}
        \cup {[exc |-> "", parts |-> <<t>>] : t \in Texts}

\* tempfile.NamedTemporaryFile: the names mkstemp (O_CREAT | O_EXCL) may create
MkstempAnyName(files) == Names
MkstempNames(files) == Names \ DOMAIN files

----------------------------------------------------------------------------
(* The request classes and the framework around the handlers *)

TextInputNonEmpty(b) == HasField(b, "prompt") /\ Field(b, "prompt") # ""
\* class TextInput(BaseModel): prompt: str
TextInput(b) == HasField(b, "prompt")

ImageInputWellFormed(b) == HasField(b, "url") /\ Field(b, "url") # UrlMalformed
\* class ImageInput(BaseModel): url: str
ImageInput(b) == HasField(b, "url")

Pending == [kind |-> "pending", status |-> 0, generated_text |-> "", exc |-> ""]

\* a body its input class rejects is answered 422 before the handler runs
Unprocessable ==
    [kind |-> "error", status |-> 422, generated_text |-> "", exc |-> "ValidationError"]

Swallow(exc) ==
    [kind |-> "ok", status |-> 200, generated_text |-> "", exc |-> ""]
\* neither handler catches anything: an exception leaves it and is answered 500
Propagate(exc) ==
    [kind |-> "error", status |-> 500, generated_text |-> "", exc |-> exc]

FixedText(resp) == "Hello!"
\* response.text
ResponseText(resp) == resp[1]

\* return {"generated_text": response.text}
Ok(resp) ==
    [kind |-> "ok", status |-> 200, generated_text |-> ResponseText(resp), exc |-> ""]

DecodeAfterModel(p) ==
    CASE p = "l22" -> "l23"
      [] p = "l23" -> "done"
      [] p = "l29" -> "l30"
      [] p = "l30" -> "l32"
      [] p = "l32" -> "l31"
      [] p = "l31" -> "l33"
      [] p = "l33" -> "l35"
      [] OTHER     -> "done"
\* the statement after statement p of a handler (p names its line in main.py)
NextStmt(p) ==
    CASE p = "l22" -> "l23"
      [] p = "l23" -> "done"
      [] p = "l29" -> "l30"
      [] p = "l30" -> "l31"
      [] p = "l31" -> "l32"
      [] p = "l32" -> "l33"
      [] p = "l33" -> "l35"
      [] OTHER     -> "done"

RetryStmt(p) == p
\* where a request is once statement p has raised: out of the handler
PcAfterRaise(p) == "done"

Event(op, file, arg, exc, out) ==
    [op |-> op, file |-> file, arg |-> arg, exc |-> exc, out |-> out]

Log(r, e) == trace' = [trace EXCEPT ![r] = Append(@, e)]

Goto(r, p) == pc' = [pc EXCEPT ![r] = p]

\* statement p of request r raises exc: the with block, when entered, closes
\* temp_file on the way out (delete=False: the file stays), and the
\* exception leaves the handler
Raise(r, exc) ==
    /\ Goto(r, PcAfterRaise(pc[r]))
    /\ isOpen' = [isOpen EXCEPT ![r] = FALSE]
    /\ result' = [result EXCEPT ![r] = Propagate(exc)]

----------------------------------------------------------------------------
(* Initial state: the process has started, no request has arrived *)

Init ==
    /\ config = StartupConfig
    /\ fs = <<>>
    /\ endpoint = [r \in Reqs |-> NoEndpoint]
    /\ body = [r \in Reqs |-> {}]
    /\ pc = [r \in Reqs |-> "idle"]
    /\ tmp = [r \in Reqs |-> NoFile]
    /\ isOpen = [r \in Reqs |-> FALSE]
    /\ img = [r \in Reqs |-> NoImage]
    /\ response = [r \in Reqs |-> <<>>]
    /\ result = [r \in Reqs |-> Pending]
    /\ trace = [r \in Reqs |-> <<>>]

----------------------------------------------------------------------------
(* Actions *)

\* a client posts body b to /generate_text
PostGenerateText(r, b) ==
    /\ pc[r] = "idle"
    /\ endpoint' = [endpoint EXCEPT ![r] = "generate_text"]
    /\ body' = [body EXCEPT ![r] = b]
    /\ Goto(r, "validate")
    /\ UNCHANGED <<config, fs, tmp, isOpen, img, response, result, trace>>

\* a client posts body b to /image_to_text
PostImageToText(r, b) ==
    /\ pc[r] = "idle"
    /\ endpoint' = [endpoint EXCEPT ![r] = "image_to_text"]
    /\ body' = [body EXCEPT ![r] = b]
    /\ Goto(r, "validate")
    /\ UNCHANGED <<config, fs, tmp, isOpen, img, response, result, trace>>

\* def generate_text(input: TextInput): the body is parsed into TextInput
ValidateText(r) ==
    /\ pc[r] = "validate"
    /\ endpoint[r] = "generate_text"
    /\ IF TextInput(body[r])
       THEN Goto(r, "l22") /\ UNCHANGED result
       ELSE Goto(r, "done") /\ result' = [result EXCEPT ![r] = Unprocessable]
    /\ UNCHANGED <<config, fs, endpoint, body, tmp, isOpen, img, response, trace>>

\* def image_to_text(input: ImageInput): the body is parsed into ImageInput
ValidateImage(r) ==
    /\ pc[r] = "validate"
    /\ endpoint[r] = "image_to_text"
    /\ IF ImageInput(body[r])
       THEN Goto(r, "l29") /\ UNCHANGED result
       ELSE Goto(r, "done") /\ result' = [result EXCEPT ![r] = Unprocessable]
    /\ UNCHANGED <<config, fs, endpoint, body, tmp, isOpen, img, response, trace>>

\* response = model.generate_content(input.prompt)
TextGenerate(r) ==
    /\ pc[r] = "l22"
    /\ \E o \in ModelOutcomes :
         LET arg == <<Field(body[r], "prompt")>>
         IN /\ Log(r, Event("generate_content", NoFile, arg, o.exc, o.parts))
            /\ IF o.exc # ""
               THEN Raise(r, o.exc) /\ UNCHANGED response
               ELSE /\ response' = [response EXCEPT ![r] = o.parts]
                    /\ Goto(r, NextStmt("l22"))
                    /\ UNCHANGED <<isOpen, result>>
    /\ UNCHANGED <<config, fs, endpoint, body, tmp, img>>

\* return {"generated_text": response.text}
Return(r) ==
    /\ pc[r] \in {"l23", "l35"}
    /\ IF response[r] = <<>>
       THEN Raise(r, "ValueError")
       ELSE /\ Goto(r, NextStmt(pc[r]))
            /\ result' = [result EXCEPT ![r] = Ok(response[r])]
            /\ UNCHANGED isOpen
    /\ UNCHANGED <<config, fs, endpoint, body, tmp, img, response, trace>>

\* with tempfile.NamedTemporaryFile(delete=False) as temp_file:
CreateTemp(r) ==
    /\ pc[r] = "l29"
    /\ \E n \in MkstempNames(fs) :
         /\ fs' = (n :> "") @@ fs
         /\ tmp' = [tmp EXCEPT ![r] = n]
         /\ Log(r, Event("mkstemp", n, <<>>, "", <<>>))
    /\ isOpen' = [isOpen EXCEPT ![r] = TRUE]
    /\ Goto(r, NextStmt("l29"))
    /\ UNCHANGED <<config, endpoint, body, img, response, result>>

\* urllib.request.urlretrieve(input.url, temp_file.name)
Fetch(r) ==
    /\ pc[r] = "l30"
    /\ LET url == Field(body[r], "url")
           got == Retrieve(url)
       IN /\ Log(r, Event("urlretrieve", tmp[r], <<url>>, got.exc, <<>>))
          /\ IF got.exc # ""
             THEN Raise(r, got.exc) /\ UNCHANGED fs
             ELSE /\ fs' = [fs EXCEPT ![tmp[r]] = got.bytes]
                  /\ Goto(r, NextStmt("l30"))
                  /\ UNCHANGED <<isOpen, result>>
    /\ UNCHANGED <<config, endpoint, body, tmp, img, response>>

\* img = Image.open(temp_file.name)
Decode(r) ==
    /\ pc[r] = "l31"
    /\ LET got == ImageOpen(fs[tmp[r]])
       IN /\ Log(r, Event("Image.open", tmp[r], <<>>, got.exc, <<>>))
          /\ IF got.exc # ""
             THEN Raise(r, got.exc) /\ UNCHANGED img
             ELSE /\ img' = [img EXCEPT ![r] = got.img]
                  /\ Goto(r, NextStmt("l31"))
                  /\ UNCHANGED <<isOpen, result>>
    /\ UNCHANGED <<config, fs, endpoint, body, tmp, response>>

\* response = model.generate_content(["What is in this photo?", img]), and
\* the end of the with block, which closes temp_file
ImageGenerate(r) ==
    /\ pc[r] = "l32"
    /\ \E o \in ModelOutcomes :
         LET arg == <<Instruction, img[r]>>
         IN /\ Log(r, Event("generate_content", NoFile, arg, o.exc, o.parts))
            /\ IF o.exc # ""
               THEN Raise(r, o.exc) /\ UNCHANGED response
               ELSE /\ response' = [response EXCEPT ![r] = o.parts]
                    /\ Goto(r, NextStmt("l32"))
                    /\ isOpen' = [isOpen EXCEPT ![r] = FALSE]
                    /\ UNCHANGED result
    /\ UNCHANGED <<config, fs, endpoint, body, tmp, img>>

\* temp_file.close()
CloseTemp(r) ==
    /\ pc[r] = "l33"
    /\ isOpen' = [isOpen EXCEPT ![r] = FALSE]
    /\ Goto(r, NextStmt("l33"))
    /\ UNCHANGED <<config, fs, endpoint, body, tmp, img, response, result, trace>>

Next ==
    \E r \in Reqs :
        \/ \E b \in Bodies : PostGenerateText(r, b)
        \/ \E b \in Bodies : PostImageToText(r, b)
        \/ ValidateText(r)
        \/ ValidateImage(r)
        \/ TextGenerate(r)
        \/ Return(r)
        \/ CreateTemp(r)
        \/ Fetch(r)
        \/ Decode(r)
        \/ ImageGenerate(r)
        \/ CloseTemp(r)

Spec == Init /\ [][Next]_vars

----------------------------------------------------------------------------
(* What the claims speak of *)

Done(r) == pc[r] = "done"
InFlight(r) == pc[r] \notin {"idle", "done"}
IsText(r) == endpoint[r] = "generate_text"
IsImage(r) == endpoint[r] = "image_to_text"

\* the calls of operation op request r has made so far
Calls(r, op) == SelectSeq(trace[r], LAMBDA e : e.op = op)

ModelCalls(r) == Calls(r, "generate_content")
Fetches(r) == Calls(r, "urlretrieve")
Decodes(r) == Calls(r, "Image.open")

Ops(r) == [i \in 1 .. Len(trace[r]) |-> trace[r][i].op]
IsPrefix(s, t) == Len(s) <= Len(t) /\ \A i \in 1 .. Len(s) : s[i] = t[i]

UrlIs(r, u) == IsImage(r) /\ HasField(body[r], "url") /\ Field(body[r], "url") = u

\* C1: once an image_to_text call has completed, on whatever path, the
\* temporary file it created no longer exists; with no call in progress the
\* temporary directory holds no file.
C1_TempFileRemoved ==
    /\ \A r \in Reqs : Done(r) /\ tmp[r] # NoFile => tmp[r] \notin DOMAIN fs
    /\ (\A r \in Reqs : ~InFlight(r)) => DOMAIN fs = {}

C3_Verbatim ==
    \A r \in Reqs :
        result[r].kind = "ok"
            => /\ Len(ModelCalls(r)) = 1
               /\ ModelCalls(r)[1].exc = ""
               /\ ModelCalls(r)[1].out = <<result[r].generated_text>>
               /\ IsText(r) => ModelCalls(r)[1].arg = <<Field(body[r], "prompt")>>
               /\ IsImage(r) =>
                    ModelCalls(r)[1].arg =
                        <<Instruction, ImageOpen(Retrieve(Field(body[r], "url")).bytes).img>>

C3_Witness ==
    \E r1, r2 \in Reqs :
        /\ IsText(r1) /\ Done(r1) /\ result[r1].kind = "ok"
        /\ Field(body[r1], "prompt") # ""
        /\ IsImage(r2) /\ Done(r2) /\ result[r2].kind = "ok"
        /\ result[r1].generated_text # result[r2].generated_text

\* C4: image_to_text with a url that cannot be retrieved ends in a failure
\* response for the fetch error, and its temporary file is gone by then.
C4_FetchErrorNoTempFile ==
    \A r \in Reqs :
        UrlIs(r, UrlUnreachable) /\ Done(r)
            => /\ result[r] = Propagate("URLError")
               /\ tmp[r] \notin DOMAIN fs

\* C5: image_to_text with a url whose bytes are no image ends in a failure
\* response for the decode error, and its temporary file is gone by then.
C5_DecodeErrorNoTempFile ==
    \A r \in Reqs :
        UrlIs(r, UrlNonImage) /\ Done(r)
            => /\ result[r] = Propagate("UnidentifiedImageError")
               /\ tmp[r] \notin DOMAIN fs

ModelFailed(r) ==
    /\ ModelCalls(r) # <<>>
    /\ ModelCalls(r)[1].exc # "" \/ ModelCalls(r)[1].out = <<>>

\* C7: in either endpoint, a request whose model call failed never ends in a
\* success response: it ends in a failure response, and one that reports the
\* exception the call raised.
C7_ModelFailurePropagates ==
    \A r \in Reqs :
        ModelFailed(r)
            => /\ result[r].kind # "ok"
               /\ Done(r) => result[r].kind = "error" /\ result[r].status = 500
               /\ ModelCalls(r)[1].exc # "" =>
                    Done(r) /\ result[r] = Propagate(ModelCalls(r)[1].exc)

C7_Witness ==
    \E r1, r2 \in Reqs :
        /\ IsText(r1) /\ Done(r1) /\ ModelFailed(r1) /\ ModelCalls(r1)[1].exc # ""
        /\ IsImage(r2) /\ Done(r2) /\ ModelFailed(r2)

\* the files request r has created, written or read
Touched(r) == {trace[r][i].file : i \in 1 .. Len(trace[r])} \ {NoFile}

C9_NoRetry ==
    \A r \in Reqs : Len(ModelCalls(r)) <= 1 /\ Len(Fetches(r)) <= 1

C9_Witness ==
    \E r1, r2 \in Reqs :
        /\ Done(r1) /\ Len(Fetches(r1)) = 1 /\ Fetches(r1)[1].exc # ""
        /\ Done(r2) /\ Len(ModelCalls(r2)) = 1 /\ ModelCalls(r2)[1].exc # ""

\* C10: an image_to_text request creates its temporary file, fetches the url
\* into it, decodes it and calls the model, in that order; the model is
\* called only after the fetch and the decode have succeeded, and nothing
\* follows a step that failed.
C10_StepOrder ==
    \A r \in Reqs :
        IsImage(r)
            => /\ IsPrefix(Ops(r), <<"mkstemp", "urlretrieve", "Image.open", "generate_content">>)
               /\ \A i \in 1 .. Len(trace[r]) :
                    trace[r][i].exc # "" => i = Len(trace[r])
               /\ ModelCalls(r) # <<>> => img[r] # NoImage

C10_Witness ==
    \E r1, r2 \in Reqs :
        /\ IsImage(r1) /\ Done(r1) /\ Len(ModelCalls(r1)) = 1
        /\ IsImage(r2) /\ Done(r2) /\ Len(Decodes(r2)) = 1 /\ Decodes(r2)[1].exc # ""

====
